---- MODULE Spec2Model ----
(***************************************************************************)
(* Model of src/main.py: the block-wise top-K similarity engine            *)
(* (get_top_k_blocks) and the pool-based parallel reading and              *)
(* normalisation of the documents (parallel_read_content,                  *)
(* parallel_preprocess_text).                                              *)
(*                                                                         *)
(* Document ids are the 0-based row numbers of the code.  Python lists     *)
(* and numpy arrays are TLA+ sequences, so position p of the code is       *)
(* position p + 1 here; the rows of the matrix and of a similarity block   *)
(* are functions over 0 .. n_docs - 1 and keep the code's indices.         *)
(*                                                                         *)
(* Scores are fixed-point numbers in units of 1 / ScoreUnit.  The rows of  *)
(* the matrix are drawn from VectorPool, whose vectors have norm 5, so     *)
(* every cosine is a whole number of units: 9 (0.36), 12 (0.48),           *)
(* 16 (0.64) or, for equal rows, 25 (1.0).                                 *)
(***************************************************************************)
EXTENDS Integers, Sequences, FiniteSets, TLC

VARIABLES
    \* ---- get_top_k_blocks ----
    matrix,      \* the document-term matrix: row id -> term vector
    n_docs,      \* matrix.shape[0]
    k,           \* parameter k
    block_size,  \* parameter block_size of the call in progress
    selTie,      \* how the build's argpartition treats equal scores
    ordTie,      \* how the build's argsort treats equal scores
    pc,          \* "idle", "loop", "row", "done", "error"
    start,       \* loop variable of the block loop
    end,         \* end of the block in progress
    offset,      \* loop variable of the row loop
    sims_block,  \* cosine_similarity(block, matrix) of the block in progress
    recs,        \* the mapping under construction / returned
    writes,      \* id -> number of assignments recs[id] = ... in this call
    prev,        \* the mapping the first call returned, kept by the caller
    have_prev,   \* whether the first call has returned
    \* ---- parallel_read_content / parallel_preprocess_text ----
    npc,         \* "start", "read", "prep", "returned", "raised"
    paths,       \* the column content_path, a sequence of file names
    num_processes, \* pool size of parallel_read_content
    NUM_PROCESSES, \* pool size of parallel_preprocess_text (cpu_count())
    content,     \* the column content_text once read
    tasks,       \* the chunks of the pool.map call in progress
    taskq,       \* numbers of the chunks no worker has taken yet
    running,     \* worker -> number of the chunk it is running, 0 when idle
    value,       \* MapResult._value: chunk number -> result of the chunk
    number_left, \* MapResult._number_left
    out_of_order, \* whether a chunk was finished before a chunk of lower number
    success,     \* MapResult._success
    processed    \* the sequence parallel_preprocess_text returns

varsTopK == <<matrix, n_docs, k, block_size, selTie, ordTie, pc, start, end,
              offset, sims_block, recs, writes, prev, have_prev>>
varsNorm == <<npc, paths, num_processes, NUM_PROCESSES, content, tasks, taskq,
              running, value, number_left, out_of_order, success, processed>>
vars == <<varsTopK, varsNorm>>

\* ------------------------------------------------------------------ bounds
MaxDocs == 4      \* largest corpus of the top-K engine
MaxK == 2         \* largest k
MaxTexts == 5     \* largest number of documents read and normalised
MaxWorkers == 2   \* largest pool size

\* --------------------------------------------------------------- constants
ScoreUnit == 5 * 5
\* MIN_SCORE = 0.4, in units of 1 / ScoreUnit
MIN_SCORE == 10

Min(a, b) == IF a <= b THEN a ELSE b

\* ------------------------------------------------------ cosine similarity
\* Term vectors over three terms, each of norm 5.
VectorPool == { <<4, 0, 3>>, <<0, 4, 3>>, <<3, 4, 0>> }

Dot(a, b) == a[1] * b[1] + a[2] * b[2] + a[3] * b[3]
Norm(a) == CHOOSE r \in 0..5 : r * r = Dot(a, a)

\* sklearn's cosine_similarity of two rows: the dot product of the
\* L2-normalised rows; a zero row stays zero.
CosineSimilarity(a, b) ==
    LET na == Norm(a)
        nb == Norm(b)
    IN  IF na = 0 \/ nb = 0 THEN 0
        ELSE (ScoreUnit * Dot(a, b)) \div (na * nb)

\* ---------------------------------------------------------- sorting helpers
\* The positions 1 .. Len(vals) in ascending order of vals; equal values
\* appear by ascending position when tie = "low", by descending position
\* when tie = "high".
SortPositions(vals, tie) ==
    LET n == Len(vals)
        Less(q, p) == \/ vals[q] < vals[p]
                      \/ /\ vals[q] = vals[p]
                         /\ IF tie = "low" THEN q < p ELSE q > p
        Rank(p) == Cardinality({q \in 1..n : Less(q, p)})
    IN  [x \in 1..n |-> CHOOSE p \in 1..n : Rank(p) = x - 1]

Negate(vals) == [x \in 1..Len(vals) |-> -vals[x]]
Take(arr, idx) == [x \in 1..Len(idx) |-> arr[idx[x]]]

\* np.argpartition(vals, kth): a permutation of the positions with the
\* kth smallest value in its sorted place, nothing larger before it and
\* nothing smaller behind it.  numpy leaves the order inside the two parts
\* undefined; the build decides it (selTie).
ArgPartition(vals, kth, tie) == SortPositions(vals, tie)

\* np.argsort(vals), default kind: not stable; the build decides the order
\* of equal values (ordTie).
ArgSort(vals, tie) == SortPositions(vals, tie)

\* sorted(candidates, key=lambda j: sims[j], reverse=True): stable, equal
\* keys keep their original order also under reverse=True.
\* (faulty variant: reverse=True forgotten)
SortedDescAscendingKeys(candidates, sims) ==
    Take(candidates, SortPositions(Take(sims, candidates), "low"))
SortedDesc(candidates, sims) ==
    Take(candidates, SortPositions(Negate(Take(sims, candidates)), "low"))

\* ------------------------------------------------------- get_top_k_blocks
Ids == 0..(n_docs - 1)
IdSeq == [x \in 1..n_docs |-> x - 1]

\* line 102: i = start + offset
\* (faulty variant: the block's start forgotten)
RowIndexOffsetOnly(s, o) == o
RowIndex(s, o) == s + o

\* line 97: end = min(start + block_size, n_docs)
BlockEnd(s, bs, n) == Min(s + bs, n)

\* line 100: the rows start .. end - 1 of cosine_similarity(block, matrix)
SimsBlock(s, e) ==
    [o \in 0..(e - s - 1) |->
        [j \in Ids |-> CosineSimilarity(matrix[s + o], matrix[j])]]

\* line 103: sims[i] = -1
MaskSelf(row, i) == [row EXCEPT ![i] = -ScoreUnit]

\* lines 103-107: the candidates of row i, in ascending order of id
\* (faulty variants: no self-exclusion; no threshold)
CandidatesKeepSelf(row, i) ==
    SelectSeq(IdSeq, LAMBDA j : row[j] >= MIN_SCORE)
CandidatesNoThreshold(row, i) ==
    SelectSeq(IdSeq, LAMBDA j : j # i)
Candidates(row, i) ==
    LET sims == MaskSelf(row, i)
    IN  SelectSeq(IdSeq, LAMBDA j : sims[j] >= MIN_SCORE /\ j # i)

\* lines 110-111: top_idx = np.argpartition(-scores, k)[:k]
\* (faulty variants: scores not negated; the slice [:k] forgotten)
TopIdxLowest(scores, kk, tie) ==
    SubSeq(ArgPartition(scores, kk, tie), 1, kk)
TopIdxAll(scores, kk, tie) ==
    ArgPartition(Negate(scores), kk, tie)
TopIdx(scores, kk, tie) ==
    SubSeq(ArgPartition(Negate(scores), kk, tie), 1, kk)

\* lines 109-118: sorted_idxs
SortedIdxs(candidates, sims, kk, stie, otie) ==
    IF Len(candidates) > kk
    THEN LET scores == Take(sims, candidates)
             top_idx == TopIdx(scores, kk, stie)
         IN  Take(Take(candidates, top_idx),
                  ArgSort(Negate(Take(scores, top_idx)), otie))
    ELSE LET s == SortedDesc(candidates, sims)
         IN  SubSeq(s, 1, Min(kk, Len(s)))

\* lines 103-119: the list stored in recs[i]
RowRecs(row, i, kk, stie, otie) ==
    LET sims == MaskSelf(row, i)
        sorted_idxs == SortedIdxs(Candidates(row, i), sims, kk, stie, otie)
    IN  [x \in 1..Len(sorted_idxs) |-> <<sorted_idxs[x], sims[sorted_idxs[x]]>>]

EmptyMap == [i \in {} |-> <<>>]
Put(map, key, val) ==
    [x \in (DOMAIN map) \cup {key} |-> IF x = key THEN val ELSE map[x]]

TiePolicies == {"low", "high"}
\* block_size values: negative, zero, and every size up to the largest corpus
BlockSizes == (-1)..MaxDocs

NormIdle ==
    /\ npc = "off" /\ paths = <<>> /\ num_processes = 0 /\ NUM_PROCESSES = 0
    /\ content = <<>> /\ tasks = <<>> /\ taskq = <<>> /\ running = <<>>
    /\ value = <<>> /\ number_left = 0 /\ out_of_order = FALSE
    /\ success = TRUE /\ processed = <<>>

Init ==
    /\ n_docs \in 1..MaxDocs
    /\ matrix \in [0..(n_docs - 1) -> VectorPool]
    /\ k \in 0..MaxK
    /\ selTie \in TiePolicies
    /\ ordTie \in TiePolicies
    /\ block_size = 0
    /\ pc = "idle"
    /\ start = 0 /\ end = 0 /\ offset = 0
    /\ sims_block = <<>>
    /\ recs = EmptyMap
    /\ writes = [i \in 0..(n_docs - 1) |-> 0]
    /\ prev = EmptyMap
    /\ have_prev = FALSE
    /\ NormIdle

\* lines 91-96: the call; range(0, n_docs, 0) raises ValueError.  The caller
\* first computes the mapping in a single block (block_size = n_docs) and
\* then calls again with any block size.
Call(bs) ==
    /\ pc = "idle"
    /\ have_prev \/ bs = n_docs
    /\ block_size' = bs
    /\ recs' = EmptyMap
    /\ writes' = [i \in Ids |-> 0]
    /\ start' = 0 /\ end' = 0 /\ offset' = 0
    /\ sims_block' = <<>>
    /\ pc' = IF bs = 0 THEN "error" ELSE "loop"
    /\ UNCHANGED <<matrix, n_docs, k, selTie, ordTie, prev, have_prev>>
    /\ UNCHANGED varsNorm

\* lines 96-100: the next block of range(0, n_docs, block_size)
StartBlock ==
    /\ pc = "loop"
    /\ block_size > 0 /\ start < n_docs
    /\ end' = BlockEnd(start, block_size, n_docs)
    /\ sims_block' = SimsBlock(start, end')
    /\ offset' = 0
    /\ pc' = "row"
    /\ UNCHANGED <<matrix, n_docs, k, block_size, selTie, ordTie, start, recs,
                   writes, prev, have_prev>>
    /\ UNCHANGED varsNorm

\* lines 101-119: one row of the block; behind the block's last row the
\* block loop moves on to start + block_size
ProcessRow ==
    /\ pc = "row"
    /\ offset \in DOMAIN sims_block
    /\ LET i == RowIndex(start, offset)
       IN  /\ recs' = Put(recs, i, RowRecs(sims_block[offset], i, k, selTie, ordTie))
           /\ writes' = [writes EXCEPT ![i] = @ + 1]
    /\ IF offset + 1 \in DOMAIN sims_block
       THEN /\ offset' = offset + 1
            /\ UNCHANGED <<pc, start, sims_block>>
       ELSE /\ offset' = 0
            /\ start' = start + block_size
            /\ sims_block' = <<>>
            /\ pc' = "loop"
    /\ UNCHANGED <<matrix, n_docs, k, block_size, selTie, ordTie, end, prev,
                   have_prev>>
    /\ UNCHANGED varsNorm

\* lines 96, 121-122: the range is exhausted (at once when block_size < 0)
Finish ==
    /\ pc = "loop"
    /\ ~(block_size > 0 /\ start < n_docs)
    /\ pc' = "done"
    /\ UNCHANGED <<matrix, n_docs, k, block_size, selTie, ordTie, start, end,
                   offset, sims_block, recs, writes, prev, have_prev>>
    /\ UNCHANGED varsNorm

\* line 122: return recs; the caller keeps the first call's mapping
Return ==
    /\ pc = "done"
    /\ prev' = IF have_prev THEN prev ELSE recs
    /\ have_prev' = TRUE
    /\ pc' = "idle"
    /\ UNCHANGED <<matrix, n_docs, k, block_size, selTie, ordTie, start, end,
                   offset, sims_block, recs, writes>>
    /\ UNCHANGED varsNorm

\* the ValueError of range() reaches the caller
Raise ==
    /\ pc = "error"
    /\ pc' = "idle"
    /\ UNCHANGED <<matrix, n_docs, k, block_size, selTie, ordTie, start, end,
                   offset, sims_block, recs, writes, prev, have_prev>>
    /\ UNCHANGED varsNorm

Next ==
    \/ \E bs \in BlockSizes : Call(bs)
    \/ StartBlock
    \/ ProcessRow
    \/ Finish
    \/ Return
    \/ Raise

Spec == Init /\ [][Next]_vars

\* ======================================== reading and normalising, in pools
\* Texts are sequences of one-character strings.
UPPER == <<"A", "B", "C", "D", "E", "F", "G", "H", "I", "J", "K", "L", "M",
           "N", "O", "P", "Q", "R", "S", "T", "U", "V", "W", "X", "Y", "Z">>
LOWER == <<"a", "b", "c", "d", "e", "f", "g", "h", "i", "j", "k", "l", "m",
           "n", "o", "p", "q", "r", "s", "t", "u", "v", "w", "x", "y", "z">>
DIGITS == {"0", "1", "2", "3", "4", "5", "6", "7", "8", "9"}
Range(f) == {f[x] : x \in DOMAIN f}

\* str.lower(), one character
LowerChar(c) ==
    IF c \in Range(UPPER) THEN LOWER[CHOOSE x \in 1..26 : UPPER[x] = c] ELSE c
Lower(txt) == [x \in 1..Len(txt) |-> LowerChar(txt[x])]

\* \w and \s of the pattern [^\w\s]
IsWordChar(c) == c \in Range(UPPER) \cup Range(LOWER) \cup DIGITS \cup {"_"}
IsSpace(c) == c \in {" ", "\n", "\t"}

\* line 58: _NON_WORD_RE.sub("", txt)
StripNonWord(txt) == SelectSeq(txt, LAMBDA c : IsWordChar(c) \/ IsSpace(c))

\* line 59: txt.split(): the maximal runs of non-space characters
RECURSIVE SplitFrom(_, _, _)
SplitFrom(txt, pos, cur) ==
    IF pos > Len(txt)
    THEN IF cur = <<>> THEN <<>> ELSE <<cur>>
    ELSE IF IsSpace(txt[pos])
         THEN (IF cur = <<>> THEN <<>> ELSE <<cur>>) \o SplitFrom(txt, pos + 1, <<>>)
         ELSE SplitFrom(txt, pos + 1, Append(cur, txt[pos]))
Split(txt) == SplitFrom(txt, 1, <<>>)

\* line 24: the English stopwords among the words of the files
STOPWORDS == { <<"t", "h", "e">>, <<"w", "a", "s">>, <<"i", "n">> }

\* line 23: WordNetLemmatizer.lemmatize on the words of the files
Lemmatize(t) ==
    IF t = <<"c", "a", "t", "s">> THEN <<"c", "a", "t">>
    ELSE IF t = <<"d", "o", "g", "s">> THEN <<"d", "o", "g">>
    ELSE t

\* line 64: " ".join(tokens)
RECURSIVE Join(_)
Join(tokens) ==
    IF tokens = <<>> THEN <<>>
    ELSE IF Len(tokens) = 1 THEN tokens[1]
    ELSE tokens[1] \o <<" ">> \o Join(Tail(tokens))

\* lines 56-64
preprocess_text(txt) ==
    LET tokens == Split(StripNonWord(Lower(txt)))
        kept == SelectSeq(tokens, LAMBDA t : Len(t) > 2 /\ t \notin STOPWORDS)
    IN  Join([x \in 1..Len(kept) |-> Lemmatize(kept[x])])

\* The files the paths may name; "missing.txt" cannot be opened.
Files == {"cats.txt", "dog.txt", "missing.txt"}
Readable(p) == p # "missing.txt"
FileText(p) ==
    IF p = "cats.txt" THEN <<"C", "a", "t", "s", "!">>
    ELSE <<"T", "h", "e", " ", "d", "o", "g", " ", " ", "w", "a", "s", "\n", "i", "t">>

\* lines 28-29: read_content of one section of the column; open() raises on
\* a file that cannot be read
ReadRaises(section) == \E x \in DOMAIN section : ~Readable(section[x])
read_content(section) == [x \in 1..Len(section) |-> Lower(FileText(section[x]))]

\* line 33: np.array_split(df, n): n sections, the first len % n of them one
\* longer than the rest
ArraySplit(items, n) ==
    LET q == Len(items) \div n
        r == Len(items) % n
        First(sct) == (sct - 1) * q + Min(sct - 1, r)
    IN  [sct \in 1..n |->
            SubSeq(items, First(sct) + 1, First(sct) + q + (IF sct <= r THEN 1 ELSE 0))]

\* Pool.map: chunksize, extra = divmod(len(iterable), len(pool) * 4);
\* if extra: chunksize += 1
MapChunkSize(len, procs) ==
    (len \div (procs * 4)) + (IF len % (procs * 4) # 0 THEN 1 ELSE 0)

\* Pool.map: the task batches, chunksize items each
Chunks(items, cs) ==
    LET nchunks == (Len(items) + cs - 1) \div cs
    IN  [c \in 1..nchunks |-> SubSeq(items, (c - 1) * cs + 1, Min(c * cs, Len(items)))]

RECURSIVE Flatten(_)
Flatten(seqs) == IF seqs = <<>> THEN <<>> ELSE Head(seqs) \o Flatten(Tail(seqs))

\* MapResult._set on success: the chunk's results go to the chunk's slots
\* (faulty variant: results stored in the order the chunks finish)
SetValueInCompletionOrder(val, c, result) ==
    [val EXCEPT ![Len(val) - number_left + 1] = result]
SetValue(val, c, result) == [val EXCEPT ![c] = result]

PoolSize == IF npc = "read" THEN num_processes ELSE NUM_PROCESSES
Workers == 1..PoolSize

\* a slot of MapResult._value that holds no result yet (a chunk's result
\* is a list of at least one item)
Pending == <<>>

\* the state of a pool.map call that has just queued its task batches
MapStart(batches, procs) ==
    /\ tasks' = batches
    /\ taskq' = [c \in 1..Len(batches) |-> c]
    /\ running' = [w \in 1..procs |-> 0]
    /\ value' = [c \in 1..Len(batches) |-> Pending]
    /\ number_left' = Len(batches)
    /\ out_of_order' = FALSE
    /\ success' = TRUE

TopKIdle ==
    /\ n_docs = 0 /\ matrix = <<>> /\ k = 0 /\ block_size = 0
    /\ selTie = "low" /\ ordTie = "low" /\ pc = "off"
    /\ start = 0 /\ end = 0 /\ offset = 0 /\ sims_block = <<>>
    /\ recs = <<>> /\ writes = <<>> /\ prev = <<>> /\ have_prev = FALSE

InitNorm ==
    /\ TopKIdle
    /\ npc = "start"
    /\ \E n \in 1..MaxTexts : paths \in [1..n -> Files]
    /\ num_processes \in 1..MaxWorkers
    /\ NUM_PROCESSES \in 1..MaxWorkers
    /\ content = <<>> /\ processed = <<>>
    /\ tasks = <<>> /\ taskq = <<>> /\ running = <<>> /\ value = <<>>
    /\ number_left = 0 /\ out_of_order = FALSE /\ success = TRUE

\* lines 32-35: split the column and hand the sections to the pool
ReadStart ==
    /\ npc = "start"
    /\ LET df_split == ArraySplit(paths, num_processes)
       IN  MapStart(Chunks(df_split, MapChunkSize(Len(df_split), num_processes)),
                    num_processes)
    /\ npc' = "read"
    /\ UNCHANGED <<paths, num_processes, NUM_PROCESSES, content, processed>>
    /\ UNCHANGED varsTopK

\* an idle pool worker takes the next task batch off the queue
TakeTask(w) ==
    /\ npc \in {"read", "prep"}
    /\ running[w] = 0
    /\ taskq # <<>>
    /\ running' = [running EXCEPT ![w] = Head(taskq)]
    /\ taskq' = Tail(taskq)
    /\ UNCHANGED <<npc, paths, num_processes, NUM_PROCESSES, content, tasks, value,
                   number_left, out_of_order, success, processed>>
    /\ UNCHANGED varsTopK

\* a worker finishes its batch, list(map(func, batch)), and the pool's
\* result handler records it (MapResult._set)
FinishTask(w) ==
    /\ npc \in {"read", "prep"}
    /\ running[w] # 0
    /\ LET c == running[w]
           batch == tasks[c]
           raises == npc = "read" /\ \E x \in DOMAIN batch : ReadRaises(batch[x])
           result == IF npc = "read"
                     THEN [x \in 1..Len(batch) |-> read_content(batch[x])]
                     ELSE [x \in 1..Len(batch) |-> preprocess_text(batch[x])]
       IN  /\ value' = IF ~raises /\ success THEN SetValue(value, c, result) ELSE value
           /\ success' = (success /\ ~raises)
    /\ number_left' = number_left - 1
    /\ out_of_order' = (out_of_order \/ \E c \in 1..(running[w] - 1) : value[c] = Pending)
    /\ running' = [running EXCEPT ![w] = 0]
    /\ UNCHANGED <<npc, paths, num_processes, NUM_PROCESSES, content, tasks, taskq,
                   processed>>
    /\ UNCHANGED varsTopK

\* lines 35-39, 50, 67-70: pool.map of parallel_read_content returns or
\* raises once every batch is done; pd.concat(data) becomes the column
\* content_text, whose list parallel_preprocess_text hands to its pool
ReadReturn ==
    /\ npc = "read"
    /\ number_left = 0
    /\ IF success
       THEN LET data == Flatten(value)
                texts == Flatten(data)
            IN  /\ content' = texts
                /\ MapStart(Chunks(texts, MapChunkSize(Len(texts), NUM_PROCESSES)),
                            NUM_PROCESSES)
                /\ npc' = "prep"
       ELSE /\ npc' = "raised"
            /\ UNCHANGED <<content, tasks, taskq, running, value, number_left,
                           out_of_order, success>>
    /\ UNCHANGED <<paths, num_processes, NUM_PROCESSES, processed>>
    /\ UNCHANGED varsTopK

\* lines 70-72: pool.map of parallel_preprocess_text returns or raises
PrepReturn ==
    /\ npc = "prep"
    /\ number_left = 0
    /\ IF success
       THEN /\ processed' = Flatten(value)
            /\ npc' = "returned"
       ELSE /\ npc' = "raised"
            /\ UNCHANGED processed
    /\ UNCHANGED <<paths, num_processes, NUM_PROCESSES, content, tasks, taskq,
                   running, value, number_left, out_of_order, success>>
    /\ UNCHANGED varsTopK

NextNorm ==
    \/ ReadStart
    \/ \E w \in Workers : TakeTask(w)
    \/ \E w \in Workers : FinishTask(w)
    \/ ReadReturn
    \/ PrepReturn

SpecNorm == InitNorm /\ [][NextNorm]_vars

\* ===================================================== claims, top-K
\* The raw cosine score of documents i and j, and the qualifying
\* candidates of row i, read off the matrix.
Score(i, j) == CosineSimilarity(matrix[i], matrix[j])
Q(i) == {j \in Ids \ {i} : Score(i, j) >= MIN_SCORE}
RecIds(i) == {recs[i][x][1] : x \in DOMAIN recs[i]}

\* C1: for every processed row i, with Q the ids j # i of score >=
\* MIN_SCORE: if |Q| > k the list holds exactly k members of Q and no member
\* left out scores higher than a returned one; otherwise the list holds
\* exactly the members of Q.
C1_TopKOfQualifying ==
    \A i \in DOMAIN recs :
        IF Cardinality(Q(i)) > k
        THEN /\ Len(recs[i]) = k
             /\ Cardinality(RecIds(i)) = k
             /\ RecIds(i) \subseteq Q(i)
             /\ \A q \in Q(i) \ RecIds(i) : \A g \in RecIds(i) :
                    Score(i, q) <= Score(i, g)
        ELSE /\ RecIds(i) = Q(i)
             /\ Len(recs[i]) = Cardinality(Q(i))

\* a finished call in which one row had more than k candidates and dropped
\* a strictly lower one, and another row had fewer than k and kept them all
C1_Witness ==
    /\ pc = "done" /\ k >= 1
    /\ \E i \in DOMAIN recs :
          /\ Cardinality(Q(i)) > k
          /\ \E q \in Q(i) \ RecIds(i) : \E g \in RecIds(i) : Score(i, q) < Score(i, g)
    /\ \E i \in DOMAIN recs : Q(i) # {} /\ Cardinality(Q(i)) < k

\* C2 as stated: in every list the scores are non-increasing and adjacent
\* entries of equal score are in ascending id order, in both branches.
C2_TiesAscendingInBothBranches ==
    \A i \in DOMAIN recs : \A x \in 1..(Len(recs[i]) - 1) :
        \/ recs[i][x][2] > recs[i][x + 1][2]
        \/ /\ recs[i][x][2] = recs[i][x + 1][2]
           /\ recs[i][x][1] < recs[i][x + 1][1]

\* What the code does guarantee of the order (auxiliary to C2): in every
\* list the scores are non-increasing, and adjacent entries of equal score
\* are in ascending id order when the row's candidate count does not exceed
\* k (the sorted branch).
NonIncreasingTiesAscendingWhenSorted ==
    \A i \in DOMAIN recs : \A x \in 1..(Len(recs[i]) - 1) :
        /\ recs[i][x][2] >= recs[i][x + 1][2]
        /\ (Cardinality(Q(i)) <= k /\ recs[i][x][2] = recs[i][x + 1][2])
              => recs[i][x][1] < recs[i][x + 1][1]

\* a finished call with a list of distinct scores from the argpartition
\* branch and a list with a tie from the sorted branch
OrderWitness ==
    /\ pc = "done"
    /\ \E i \in DOMAIN recs :
          /\ Cardinality(Q(i)) > k
          /\ \E x \in 1..(Len(recs[i]) - 1) : recs[i][x][2] > recs[i][x + 1][2]
    /\ \E i \in DOMAIN recs :
          /\ Cardinality(Q(i)) <= k
          /\ \E x \in 1..(Len(recs[i]) - 1) : recs[i][x][2] = recs[i][x + 1][2]

\* C3: a call with any block_size >= 1 returns the mapping the call with
\* block_size = n_docs returned on the same matrix and k (so any two block
\* sizes >= 1 return the same mapping).
C3_BlockSizeIndependent ==
    (pc = "done" /\ block_size >= 1 /\ have_prev) => recs = prev

\* a call with block_size = 1 finished on a corpus of three or more
\* documents after a single-block call, some list being non-empty
C3_Witness ==
    /\ pc = "done" /\ block_size = 1 /\ n_docs >= 3
    /\ have_prev
    /\ \E i \in DOMAIN recs : Len(recs[i]) >= 2

\* C4: the list of document i never contains candidate id i.
C4_SelfExcluded ==
    \A i \in DOMAIN recs : i \notin RecIds(i)

\* a finished call in which a document whose self-similarity is 1 lists a
\* duplicate of itself (score 1) and not itself
C4_Witness ==
    /\ pc = "done"
    /\ \E i \in DOMAIN recs :
          /\ Score(i, i) = ScoreUnit
          /\ \E x \in DOMAIN recs[i] : recs[i][x][2] = ScoreUnit

\* C5: when a call with block_size >= 1 finishes, the keys of the mapping
\* are exactly 0 .. n_docs - 1 and each key was written once.
C5_EveryIdOnce ==
    (pc = "done" /\ block_size >= 1) =>
        /\ DOMAIN recs = Ids
        /\ \A i \in Ids : writes[i] = 1

\* a finished call of several blocks, the last one short, with an empty list
C5_Witness ==
    /\ pc = "done" /\ block_size = 2 /\ n_docs = 3
    /\ \E i \in DOMAIN recs : recs[i] = <<>>
    /\ \E i \in DOMAIN recs : recs[i] # <<>>

C7_SizeBoundNoDuplicates ==
    k >= 1 =>
        \A i \in DOMAIN recs :
            /\ Len(recs[i]) <= k
            /\ Cardinality(RecIds(i)) = Len(recs[i])

\* a finished call in which a row with more than k candidates was cut to k
C7_Witness ==
    /\ pc = "done" /\ k >= 2
    /\ \E i \in DOMAIN recs : Cardinality(Q(i)) > k /\ Len(recs[i]) = k

\* C9 as stated: a call with k < 1 or block_size < 1 never returns a
\* mapping.
C9_BadConfigurationNeverReturns ==
    pc = "done" => (k >= 1 /\ block_size >= 1)

\* ============================================ claims, parallel normalising
\* C8: what parallel normalisation returns is index-aligned with its input:
\* position i holds preprocess_text of the i-th text, and the i-th text is
\* the lowered content of the i-th path, whatever the pool sizes and the
\* order in which the workers finish.
C8_IndexAligned ==
    npc = "returned" =>
        /\ Len(content) = Len(paths)
        /\ \A i \in DOMAIN paths : content[i] = Lower(FileText(paths[i]))
        /\ Len(processed) = Len(content)
        /\ \A i \in DOMAIN content : processed[i] = preprocess_text(content[i])

\* a returned batch of three documents, neighbours with different results,
\* normalised by two workers that finished a later chunk before an earlier one
C8_Witness ==
    /\ npc = "returned"
    /\ Len(paths) = 3 /\ NUM_PROCESSES = 2
    /\ processed[1] # processed[2] /\ processed[2] # processed[3]
    /\ out_of_order

\* C10 as stated: a document that fails in a worker does not abort the
\* batch; the batch returns the empty string at that document's position and
\* the normal result at every other.
C10_FailureDegradesToEmpty ==
    npc \in {"returned", "raised"} =>
        /\ npc = "returned"
        /\ Len(processed) = Len(paths)
        /\ \A i \in DOMAIN paths :
              processed[i] = IF Readable(paths[i])
                             THEN preprocess_text(Lower(FileText(paths[i])))
                             ELSE <<>>

====
